---- MODULE Spec2Model ----
(***************************************************************************)
(* A model of @lumjs/web-dialog: the DialogHelper class (two sources are   *)
(* present: src/lib/dialog.js, with the option registry, and the earlier   *)
(* src/unnamed/part_002, without it), the DialogPreset base class, the     *)
(* AutoClose and ContextMenu presets and the preset catalog.               *)
(*                                                                         *)
(* Every method is a state transformer over a record of the objects'       *)
(* fields; an exception leaves the effects made before the throw and sets  *)
(* `raised`.  One action per public call commits the record.               *)
(***************************************************************************)
EXTENDS Integers, Sequences, FiniteSets, TLC

-----------------------------------------------------------------------------
(* Bounds *)

\* objects on the heap (option defaults, nested option values)
MaxHeap == 3
\* preset instances created by `new`
MaxInsts == 2
\* the ghost counter of offers of one preset class saturates here
MaxOffers == 2

-----------------------------------------------------------------------------
(* JavaScript values.  Scalars are strings; an object is a reference into  *)
(* the heap; "event" is a MouseEvent, "pos" a plain {x, y} position.       *)

Undefined == "undefined"
Null == "null"
True == "true"
False == "false"
EventV == "event"
PosV == "pos"

RefNames == <<"o1", "o2", "o3", "o4", "o5", "o6">>
Refs == {RefNames[i] : i \in 1..MaxHeap}
RefIndex(r) == CHOOSE i \in 1..Len(RefNames) : RefNames[i] = r

\* keys of the nested option objects (dialog.options.autoClose.*)
Keys ==
  {"enabled", "nonModalEsc", "emitCancel", "clickEmitCancel", "escEmitCancel",
   "preventDefault", "stopPropagation", "clickPreventDefault", "clickStopPropagation",
   "escPreventDefault", "escStopPropagation"}
EmptyObj == [k \in Keys |-> Undefined]

\* object literals a caller may write; LitObj gives the literal's content
Literals ==
  {"{}", "{enabled:true}", "{enabled:false}", "{emitCancel:true}", "{nonModalEsc:true}",
   "{clickEmitCancel:true,emitCancel:false,preventDefault:true}",
   "{nonModalEsc:true,escEmitCancel:false,escStopPropagation:true}"}
LitObj(l) ==
  CASE l = "{}" -> EmptyObj
    [] l = "{enabled:true}" -> [EmptyObj EXCEPT !["enabled"] = True]
    [] l = "{enabled:false}" -> [EmptyObj EXCEPT !["enabled"] = False]
    [] l = "{emitCancel:true}" -> [EmptyObj EXCEPT !["emitCancel"] = True]
    [] l = "{nonModalEsc:true}" -> [EmptyObj EXCEPT !["nonModalEsc"] = True]
    [] l = "{clickEmitCancel:true,emitCancel:false,preventDefault:true}" ->
         [EmptyObj EXCEPT !["clickEmitCancel"] = True, !["emitCancel"] = False,
                          !["preventDefault"] = True]
    [] l = "{nonModalEsc:true,escEmitCancel:false,escStopPropagation:true}" ->
         [EmptyObj EXCEPT !["nonModalEsc"] = True, !["escEmitCancel"] = False,
                          !["escStopPropagation"] = True]

\* isObj() of @lumjs/core: typeof v === 'object' and v !== null
isObj(v) == v \in Refs \cup {EventV, PosV}
\* typeof v === 'object'
typeofO(v) == v = Null \/ isObj(v)
\* JavaScript truthiness of the values above
Truthy(v) == v \notin {Undefined, Null, False}
\* a ?? b
Nullish(a, b) == IF a \in {Undefined, Null} THEN b ELSE a

-----------------------------------------------------------------------------
(* Names *)

\* option names the callers of the model use
OptNames == {"useModal", "modal", "autoReset", "reset", "presets", "autoClose", "ac"}
\* `undefined` as the value of a missing alias entry
NoName == "undefined"

Classes == {"Preset", "AutoClose", "ContextMenu"}

VARIABLES
  phase,      \* "none": no dialog yet; "live": constructor returned; "failed": it threw
  impl,       \* which DialogHelper source built the dialog: "lib" | "part_002"
  emitThrows, \* whether the event registry lets a listener's exception reach emit's caller
  made,       \* the constructor's arguments
  options,    \* dialog.options
  plain,      \* plain own properties assigned on the dialog object
  props,      \* dialog[KnownOptions].props
  aliases,    \* dialog[KnownOptions].aliases
  defaults,   \* dialog[KnownOptions].defaults
  rules,      \* dialog[KnownOptions].rules
  cache,      \* dialog[PresetsCache]: class -> instance (0: no entry)
  insts,      \* the preset instances: class, owner (.dialog), .viaPreset
  handlers,   \* listeners installed with dialog.on, in order
  heap,       \* the objects references point to
  elem,       \* the <dialog> element: open, modal, inline style
  body,       \* the listeners attached to document.body
  log,        \* what the last call did, in order: events emitted, native calls
  raised,     \* the exception the last call ended with, or "none"
  last,       \* the last call and its arguments
  offers,     \* how often each preset class was offered to use() so far
  exported,   \* the presets module's `exports`: identifier -> class or function
  catalog,    \* the presets module's `presets`: lower-case name -> class
  peer        \* a second dialog of the page: its options, defaults, rules and cache

vars == <<phase, impl, emitThrows, made, options, plain, props, aliases, defaults, rules,
          cache, insts, handlers, heap, elem, body, log, raised, last, offers,
          exported, catalog, peer>>

\* the fields the methods read and write, as one record
St ==
  [impl |-> impl, emitThrows |-> emitThrows, options |-> options, plain |-> plain,
   props |-> props, aliases |-> aliases, defaults |-> defaults, rules |-> rules,
   cache |-> cache, insts |-> insts, handlers |-> handlers, heap |-> heap,
   elem |-> elem, body |-> body, offers |-> offers, log |-> << >>, raised |-> "none"]

Assigned(s) ==
  /\ options' = s.options
  /\ plain' = s.plain
  /\ props' = s.props
  /\ aliases' = s.aliases
  /\ defaults' = s.defaults
  /\ rules' = s.rules
  /\ cache' = s.cache
  /\ insts' = s.insts
  /\ handlers' = s.handlers
  /\ heap' = s.heap
  /\ elem' = s.elem
  /\ body' = s.body
  /\ log' = s.log
  /\ raised' = s.raised
  /\ offers' = s.offers

\* the end of a call on the dialog: its fields and the heap are written back
Commit(s) ==
  /\ Assigned(s)
  /\ UNCHANGED <<emitThrows, exported, catalog, peer>>

Ok(s) == s.raised = "none"
Throw(s, e) == IF Ok(s) THEN [s EXCEPT !.raised = e] ELSE s
Log(s, e) == [s EXCEPT !.log = Append(@, e)]

\* a new object on the heap: the state and the reference
NewRef(s) == RefNames[Len(s.heap) + 1]
Alloc(s, obj) == [s EXCEPT !.heap = Append(@, obj)]
Deref(s, r) == s.heap[RefIndex(r)]
\* Object.assign({}, v) for the values of the model
copyOf(s, v) == IF v \in Refs THEN Deref(s, v) ELSE EmptyObj
\* o[k]: a key no object of the model carries reads as undefined
Prop(o, k) == IF k \in Keys THEN o[k] ELSE Undefined


-----------------------------------------------------------------------------
(* The AutoClose preset's dialog event listeners (`this` is the dialog).   *)

\* this[DOMListeners]: no constructor defines the property, on either source
DOMListeners_Defined(s) == "{}"

DOMListeners(s) == Undefined

\* the body of postShow once aco.enabled held: attach acb.click, and acb.keyup
\* when the dialog is not modal and aco.nonModalEsc is set
Attach(s, aco) ==
  IF DOMListeners(s) = Undefined
  THEN Throw(s, "TypeError")                           \* dome.autoCloseBody = {}
  ELSE [s EXCEPT !.body =
          @ \o <<"click">>
            \o (IF ~Truthy(s.options["useModal"]) /\ Truthy(aco["nonModalEsc"])
                THEN <<"keyup">> ELSE << >>)]

\* DIAG_EVENTS.postShow
postShow(s) ==
  IF s.options["autoClose"] \in {Undefined, Null}
  THEN Throw(s, "TypeError")                           \* aco.enabled
  ELSE IF s.options["autoClose"] \in Refs
          /\ Truthy(Deref(s, s.options["autoClose"])["enabled"])
  THEN Attach(s, Deref(s, s.options["autoClose"]))
  ELSE s

\* DIAG_EVENTS.postClose
postClose(s) ==
  IF DOMListeners(s) = Undefined
  THEN Throw(s, "TypeError")                           \* dome.autoCloseBody
  ELSE [s EXCEPT !.body = << >>]

\* the listeners the AutoClose preset declares: event name -> listener
DIAG_EVENTS == << <<"postShow", "DIAG_EVENTS.postShow">>,
                  <<"postClose", "DIAG_EVENTS.postClose">> >>

RunListener(s, fn) ==
  CASE fn = "DIAG_EVENTS.postShow" -> postShow(s)
    [] fn = "DIAG_EVENTS.postClose" -> postClose(s)
    [] OTHER -> s

\* a listener threw: whether the exception reaches the caller of emit is the
\* event registry's contract
Caught(r, fn) ==
  IF Ok(r) THEN r
  ELSE Log([r EXCEPT !.raised = IF r.emitThrows THEN r.raised ELSE "none"],
           [ev |-> "listener threw", data |-> fn])

\* the listeners of one event run in the order they were installed
RECURSIVE RunHandlers(_, _, _)
RunHandlers(s, ev, i) ==
  IF i > Len(s.handlers) \/ ~Ok(s) THEN s
  ELSE IF s.handlers[i][1] # ev THEN RunHandlers(s, ev, i + 1)
  ELSE RunHandlers(Caught(RunListener(s, s.handlers[i][2]), s.handlers[i][2]), ev, i + 1)

\* dialog.emit(ev, data)
emit(s, ev, data) ==
  IF ~Ok(s) THEN s
  ELSE RunHandlers(Log(s, [ev |-> ev, data |-> data]), ev, 1)

\* dialog.on(ev, listener)
on(s, ev, fn) == [s EXCEPT !.handlers = Append(@, <<ev, fn>>)]

-----------------------------------------------------------------------------
(* The option registry of src/lib/dialog.js *)

SKIP_OPTS == {"presets"}

DEFAULT_RULES == [nestedOptions |-> FALSE, cloneObject |-> Null]

\* rules.valid(val): the default test
valid(r, val) == IF r.nestedOptions THEN typeofO(val) ELSE val # Undefined

\* what a function call evaluates to when the function returns nothing
NoValue == [undefined |-> TRUE]
IsNoValue(x) == "undefined" \in DOMAIN x

\* obj once spec has defined rules, default and initial on it
Described(s, pname, obj, initial) ==
  [val |-> obj.val, assign |-> obj.assign, rules |-> s.rules[pname],
   default |-> s.defaults[pname], initial |-> initial]

\* the `spec` arrow function of addOption: it defines rules, default and initial
\* on obj; its block body has no return statement
spec(s, pname, obj, initial) == NoValue

\* what a listener of <name>$preSet does to the record: "none", "veto"
\* (assign = false) or "rewrite" (val = the given value)
Intercept(so, lsn, to) ==
  CASE lsn = "veto" -> [so EXCEPT !.assign = FALSE]
    [] lsn = "rewrite" -> [so EXCEPT !.val = to]
    [] OTHER -> so

\* the record as the events carry it
SoData(so) == IF IsNoValue(so) THEN Undefined ELSE "so"

\* Object.assign(target, src) on heap objects: src's own keys overwrite
Merged(old, new) == [k \in Keys |-> IF new[k] # Undefined THEN new[k] ELSE old[k]]

\* get(), after spec
get2(s, pname, so) ==
  IF IsNoValue(so)
  THEN [s |-> Throw(s, "TypeError"), val |-> Undefined]     \* so.val = so.initial
  ELSE [s |-> emit(s, pname \o "$get", "so"), val |-> so.initial]

\* the generated accessor's get(): the state and the value read
get(s, pname) ==
  get2(s, pname, spec(s, pname, [val |-> Undefined, assign |-> TRUE], s.options[pname]))

\* what a listener of <name>$get does to the record it is handed: "rewrite"
\* assigns so.val, which get() then returns
Overridden(r, lsn, to) ==
  IF Ok(r.s) /\ lsn = "rewrite" THEN [r EXCEPT !.val = to] ELSE r

\* get() with a listener of <name>$get
getWith(s, pname, lsn, to) == Overridden(get(s, pname), lsn, to)

\* set(), the part under `if (so.assign)`
Assign(s, pname, so) ==
  IF ~Ok(s) \/ ~so.assign THEN s
  ELSE IF ~valid(so.rules, so.val) THEN s                   \* so.invalid = true
  ELSE IF ~so.rules.nestedOptions
  THEN [s EXCEPT !.options[pname] = so.val]
  ELSE IF so.val = Null
  THEN \* reset to the default
       IF Truthy(Nullish(so.rules.cloneObject, True))
       THEN [Alloc(s, copyOf(s, so.default)) EXCEPT !.options[pname] = NewRef(s)]
       ELSE [s EXCEPT !.options[pname] = so.default]
  ELSE \* so.val = copy(so.initial, so.val)
       IF so.initial \in Refs
       THEN [s EXCEPT !.heap[RefIndex(so.initial)] = Merged(@, copyOf(s, so.val)),
                      !.options[pname] = so.initial]
       ELSE Throw(s, "TypeError")

\* set(), after the $preSet event
set2(pre, pname, so, lsn, to) ==
  IF IsNoValue(so)
  THEN \* a listener that touches event.data throws; so does `so.assign`
       Throw(pre, "TypeError")
  ELSE emit(Assign(pre, pname, Intercept(so, lsn, to)), pname \o "$postSet", "so")

\* the generated accessor's set(val); lsn, to: what a $preSet listener does
set(s, pname, val, lsn, to) ==
  IF ~Ok(s) THEN s
  ELSE set2(emit(s, pname \o "$preSet",
                 SoData(spec(s, pname, [val |-> val, assign |-> TRUE], s.options[pname]))),
            pname,
            spec(s, pname, [val |-> val, assign |-> TRUE], s.options[pname]), lsn, to)

\* the alias loop of addOption: every name after the first, reserved ones skipped
RECURSIVE AddAliases(_, _, _)
AddAliases(al, names, i) ==
  IF i > Len(names) THEN al
  ELSE AddAliases(IF names[i] \in SKIP_OPTS THEN al
                  ELSE [al EXCEPT ![names[i]] = names[1]], names, i + 1)

\* addOption after the reserved-name test: default, rules, stored value, props
Register_NoCopy(s, pname, defval, r) ==
  [s EXCEPT !.defaults[pname] = defval, !.rules[pname] = r,
            !.options[pname] = defval, !.props = @ \cup {pname}]

Register(s, pname, defval, r) ==
  IF Truthy(Nullish(r.cloneObject, IF r.nestedOptions THEN True ELSE False))
     /\ isObj(defval)
  THEN [Alloc(s, copyOf(s, defval))
          EXCEPT !.defaults[pname] = defval, !.rules[pname] = r,
                 !.options[pname] = NewRef(s), !.props = @ \cup {pname}]
  ELSE [s EXCEPT !.defaults[pname] = defval, !.rules[pname] = r,
                 !.options[pname] = defval, !.props = @ \cup {pname}]

\* dialog.addOption(names, defval, rules); names is a non-empty list, r the
\* rules composed with DEFAULT_RULES
addOption(s, names, defval, r) ==
  IF ~Ok(s) THEN s
  ELSE IF names[1] \in SKIP_OPTS
  THEN [s EXCEPT !.aliases = AddAliases(@, names, 2)]
  ELSE Register([s EXCEPT !.aliases = AddAliases(@, names, 2)], names[1], defval, r)

\* opts[key] of an ordered list of <<key, value>> pairs
Lookup(opts, key) ==
  IF \E i \in 1..Len(opts) : opts[i][1] = key
  THEN opts[CHOOSE i \in 1..Len(opts) : opts[i][1] = key][2]
  ELSE Undefined

\* one turn of the loop of setOptions; opt is the key after alias resolution
setOption(s, opts, key, opt) ==
  IF key \in SKIP_OPTS THEN s
  ELSE IF opt \in s.props
  THEN set(s, opt, Lookup(opts, opt), "none", Undefined)     \* this[opt] = opts[opt]
  ELSE [s EXCEPT !.options[opt] = Lookup(opts, opt)]

\* dialog.setOptions(opts): for (let opt in opts) ...
RECURSIVE setOptionsFrom(_, _, _)
setOptionsFrom(s, opts, i) ==
  IF i > Len(opts) \/ ~Ok(s) THEN s
  ELSE setOptionsFrom(
         setOption(s, opts, opts[i][1],
                   IF s.aliases[opts[i][1]] # NoName THEN s.aliases[opts[i][1]]
                   ELSE opts[i][1]),
         opts, i + 1)

setOptions(s, opts) == setOptionsFrom(s, opts, 1)

-----------------------------------------------------------------------------
(* Property access on the dialog object: a registered option is an         *)
(* accessor property, anything else a plain own property.                  *)

PlainNames == {"useModal", "autoReset", "autoClose"}

\* dialog[p] = v
WriteProp(s, p, v) ==
  IF ~Ok(s) THEN s
  ELSE IF p \in s.props THEN set(s, p, v, "none", Undefined)
  ELSE [s EXCEPT !.plain[p] = v]

\* dialog[p]: the state and the value read
ReadProp(s, p) ==
  IF ~Ok(s) THEN [s |-> s, val |-> Undefined]
  ELSE IF p \in s.props THEN get(s, p)
  ELSE [s |-> s, val |-> IF p \in PlainNames THEN s.plain[p] ELSE Undefined]

-----------------------------------------------------------------------------
(* The preset catalog, and DialogPreset *)

\* the names callers look up
PresetNames == {"autoclose", "AutoClose", "contextmenu", "nosuch"}

\* the names callers register and look up in the catalog; " " is a blank string
Names == PresetNames \cup {"ContextMenu", "Foo", "foo", "FOO", "get", "Get", " "}

\* name.toLowerCase()
toLowerCase(n) ==
  CASE n = "AutoClose" -> "autoclose"
    [] n = "ContextMenu" -> "contextmenu"
    [] n \in {"Foo", "FOO"} -> "foo"
    [] n = "Get" -> "get"
    [] OTHER -> n

\* name.trim()
trim(n) == IF n = " " THEN "" ELSE n

\* Preset.isPrototypeOf(c): c is a proper subclass of the base class
isaPreset(c) == c \in {"AutoClose", "ContextMenu"}

\* presetClass.name
className(c) ==
  CASE c = "AutoClose" -> "AutoClosePreset"
    [] c = "ContextMenu" -> "ContextMenuPreset"
    [] c = "Preset" -> "DialogPreset"
    [] OTHER -> c

\* SUFFIX = /Preset$/ and name.replace(SUFFIX, '')
SUFFIX(n) ==
  CASE n = "AutoClosePreset" -> "AutoClose"
    [] n = "ContextMenuPreset" -> "ContextMenu"
    [] n = "DialogPreset" -> "Dialog"
    [] OTHER -> n

CatalogKeys == {toLowerCase(n) : n \in Names \ {" "}}

\* addAs without the case-insensitive duplicate test
addAs_NoCatalogTest(m, presetClass, cname) ==
  IF m.exports[cname] # Undefined
  THEN [m EXCEPT !.raised = "RangeError"]
  ELSE [m EXCEPT !.exports[cname] = presetClass,
                 !.presets[toLowerCase(cname)] = presetClass]

\* add() once cname is decided: the two duplicate tests, then the two entries
addAs(m, presetClass, cname) ==
  IF m.exports[cname] # Undefined
  THEN [m EXCEPT !.raised = "RangeError"]                   \* already exported
  ELSE IF m.presets[toLowerCase(cname)] # Undefined
  THEN [m EXCEPT !.raised = "RangeError"]                   \* already registered
  ELSE [m EXCEPT !.exports[cname] = presetClass,
                 !.presets[toLowerCase(cname)] = presetClass]

\* add(presetClass, cname) on the module m
add(m, presetClass, cname) ==
  IF m.raised # "none" THEN m
  ELSE IF ~isaPreset(presetClass) THEN [m EXCEPT !.raised = "TypeError"]
  ELSE addAs(m, presetClass,
             IF cname = Undefined \/ trim(cname) = ""
             THEN SUFFIX(className(presetClass)) ELSE cname)

\* the module once loaded: add(require('./autoclose')); add(require('./contextmenu'))
Loaded ==
  add(add([exports |-> [n \in (Names \ {" "}) \cup {"Preset", "add", "use"} |->
                          IF n = "Preset" THEN "Preset"
                          ELSE IF n \in {"add", "get", "use"} THEN "function"
                          ELSE Undefined],
           presets |-> [k \in CatalogKeys |-> Undefined],
           raised |-> "none"],
          "AutoClose", Undefined),
      "ContextMenu", Undefined)

\* the catalog after the module's two add() calls: lower-case name -> class
presets == Loaded.presets

\* presets.get(name), for a non-blank string: the class, or null
presets_get(name) ==
  IF toLowerCase(name) \in CatalogKeys
  THEN Nullish(catalog[toLowerCase(name)], Null)
  ELSE Null

\* `new C()`: the new instance is the last of s.insts
NewInst(s, c) == [s EXCEPT !.insts = Append(@, [cls |-> c, dialog |-> FALSE, via |-> 0])]

\* setObjectPath, on the object the first path element names
setKey_Overwrite(s, cns, key, value) ==
  IF cns \notin Refs THEN Throw(s, "TypeError")
  ELSE [s EXCEPT !.heap[RefIndex(cns)][key] = value]

setKey(s, cns, key, value) ==
  IF cns \notin Refs THEN Throw(s, "TypeError")
  ELSE IF Deref(s, cns)[key] = Undefined
  THEN [s EXCEPT !.heap[RefIndex(cns)][key] = value]
  ELSE s

\* setObjectPath(dialog.options, ns + '.' + key, {value, assign: true}) of
\* @lumjs/core: creates the missing objects on the path, and assigns the value
\* only where nothing is defined yet
setObjectPath(s, ns, key, value) ==
  IF ~Ok(s) THEN s
  ELSE IF s.options[ns] = Undefined
  THEN setKey([Alloc(s, EmptyObj) EXCEPT !.options[ns] = NewRef(s)], NewRef(s), key, value)
  ELSE setKey(s, s.options[ns], key, value)

\* dlg.autoClose.nonModalEsc = true, after dlg.autoClose was read
setNonModalEsc(r) ==
  IF ~Ok(r.s) THEN r.s
  ELSE IF r.val \in Refs
  THEN [r.s EXCEPT !.heap[RefIndex(r.val)]["nonModalEsc"] = True]
  ELSE Throw(r.s, "TypeError")

\* the setup() hook: ContextMenuPreset overrides it, the base class's does nothing
setup(s, i) ==
  IF ~Ok(s) \/ s.insts[i].cls # "ContextMenu" THEN s
  ELSE setNonModalEsc(
         ReadProp(WriteProp(WriteProp(s, "autoReset", True),   \* dlg.autoReset = true
                            "useModal", False),                \* dlg.useModal = false
                  "autoClose"))

\* the presets a call is given: by name, by constructor, or an instance
ByName(n) == [kind |-> "name", name |-> n, cls |-> "", id |-> 0]
ByCtor(c) == [kind |-> "ctor", name |-> "", cls |-> c, id |-> 0]
ByInst(i) == [kind |-> "inst", name |-> "", cls |-> "", id |-> i]

\* apply: the preset's `options`, set under its `optionsPrefix`
applyOptions(s, c) ==
  IF c = "AutoClose" THEN setObjectPath(s, "autoClose", "enabled", True) ELSE s

\* apply: the preset's `events`
applyEvents(s, c) ==
  IF c = "AutoClose" /\ Ok(s)
  THEN on(on(s, DIAG_EVENTS[1][1], DIAG_EVENTS[1][2]), DIAG_EVENTS[2][1], DIAG_EVENTS[2][2])
  ELSE s

\* the preset's `includes`
includes(c) == IF c = "ContextMenu" THEN <<ByCtor("AutoClose")>> ELSE << >>

\* the item after a name was looked up: a class, null, or "instance"
Resolved(ps) ==
  IF ps.kind = "name" THEN presets_get(ps.name)
  ELSE IF ps.kind = "ctor" THEN ps.cls ELSE "instance"

RECURSIVE use(_, _, _, _)
RECURSIVE apply(_, _, _)

\* apply: `this.dialog instanceof DH`, the instance has an owner
owned_Never(s, i) == FALSE

owned(s, i) == s.insts[i].dialog

\* apply: the dialog's PresetsCache has the instance's class already; the
\* instance is returned as it is
applyAgain_Owns(s, i) == [s EXCEPT !.insts[i].dialog = TRUE]

applyAgain(s, i) == s

\* apply: pc.set(this.constructor, this), this.dialog and this.viaPreset
record_NoOwner(s, i, from) ==
  [s EXCEPT !.cache[s.insts[i].cls] = i, !.insts[i].via = from]

record(s, i, from) ==
  [s EXCEPT !.cache[s.insts[i].cls] = i, !.insts[i].dialog = TRUE, !.insts[i].via = from]

\* history: apply on an instance of class c got as far as `what`
Step(s, what, c) == IF Ok(s) THEN Log(s, [ev |-> what, data |-> c]) ELSE s

\* DialogPreset.apply(dialog, fromPreset) on instance i; from = 0: no fromPreset
apply(s, i, from) ==
  IF ~Ok(s) THEN s
  ELSE IF owned(s, i) THEN Throw(s, "RangeError")
  ELSE IF s.cache[s.insts[i].cls] # 0 THEN applyAgain(s, i)
  ELSE setup(
         Step(
           use(Step(
                 applyEvents(
                   Step(
                     applyOptions(
                       Step(record(s, i, from), "apply.recorded", s.insts[i].cls),
                       s.insts[i].cls),
                     "apply.options", s.insts[i].cls),
                   s.insts[i].cls),
                 "apply.events", s.insts[i].cls),
               i, includes(s.insts[i].cls), 1),
           "apply.setup", s.insts[i].cls),
         i)

\* what apply returns: `this` on both of its ways out, nothing when it threw
Returned(r, i) == IF Ok(r) THEN i ELSE 0

\* the class an item offers: the one its name or constructor names, or the
\* instance's own
OfferedClass(s, ps) ==
  IF ps.kind = "inst" THEN s.insts[ps.id].cls ELSE Resolved(ps)

\* history: one more offer of the item's class
Offer(s, ps) ==
  IF OfferedClass(s, ps) \in Classes
  THEN [s EXCEPT !.offers[OfferedClass(s, ps)] = IF @ < MaxOffers THEN @ + 1 ELSE @]
  ELSE s

\* one turn of the loop of use
useItem(s, parent, ps) ==
  IF isaPreset(Resolved(ps))
  THEN apply(NewInst(s, "Preset"), Len(s.insts) + 1, parent)      \* new Preset()
  ELSE IF Resolved(ps) = "instance"
  THEN apply(s, ps.id, parent)
  ELSE Throw(s, "TypeError")

\* presets.use(parent, ...items), from item n on; parent = 0: the dialog itself
use(s, parent, items, n) ==
  IF n > Len(items) \/ ~Ok(s) THEN s
  ELSE use(useItem(Offer(s, items[n]), parent, items[n]), parent, items, n + 1)

\* DialogHelper.use(...presets), the same on both sources
dialog_use(s, items) == emit(use(s, 0, items, 1), "used", Undefined)

-----------------------------------------------------------------------------
(* DialogHelper *)

NoOptions == [n \in OptNames |-> Undefined]
NoAliases == [n \in OptNames |-> NoName]
NoDefaults == [n \in OptNames |-> Undefined]
NoRules == [n \in OptNames |-> DEFAULT_RULES]
NoPlain == [n \in PlainNames |-> Undefined]
NoCache == [c \in Classes |-> 0]

\* the constructor's `if (isIterable(opts.presets)) this.use(...opts.presets)`
usePresets(s, given, items) == IF given /\ Ok(s) THEN dialog_use(s, items) ELSE s

\* src/lib/dialog.js: constructor(elem, opts); elemOk: elem resolves to a <dialog>
constructor(s, elemOk, opts, given, items) ==
  IF ~elemOk THEN Throw(s, "TypeError")
  ELSE emit(
         setOptions(
           usePresets(
             addOption(
               addOption([s EXCEPT !.options = NoOptions, !.props = {},
                                   !.aliases = NoAliases, !.defaults = NoDefaults,
                                   !.rules = NoRules, !.cache = NoCache],
                         <<"useModal", "modal">>, False, DEFAULT_RULES),
               <<"autoReset", "reset">>, False, DEFAULT_RULES),
             given, items),
           opts),
         "constructed", Undefined)

\* src/unnamed/part_002: the reserved names of the earlier constructor
SKIP_OPTS_0 == {"presets", "eventRegistry"}

\* src/unnamed/part_002: constructor(elem, opts)
constructor_0(s, elemOk, opts, given, items) ==
  IF ~elemOk THEN Throw(s, "TypeError")
  ELSE emit(
         usePresets([s EXCEPT !.options = [n \in OptNames |->
                                            IF n \in SKIP_OPTS_0 THEN Undefined
                                            ELSE Lookup(opts, n)],
                              !.cache = NoCache],
                    given, items),
         "constructed", Undefined)

\* elem.showModal() when useModal is truthy, elem.show() otherwise
NativeOpen(s, useModal) ==
  IF ~Ok(s) THEN s
  ELSE Log([s EXCEPT !.elem.open = TRUE, !.elem.modal = Truthy(useModal)],
           [ev |-> IF Truthy(useModal) THEN "elem.showModal" ELSE "elem.show",
            data |-> Undefined])

\* `if (isObj(opts.at)) reposition(elem, opts.at, opts)`; reposition, of
\* @lumjs/web-core, writes the element's inline position
reposition(s, pos) ==
  IF Ok(s) /\ isObj(pos)
  THEN Log([s EXCEPT !.elem.style = "positioned"], [ev |-> "reposition", data |-> pos])
  ELSE s

\* the argument of show(): nothing, an Event, a plain position object, or an
\* options object with or without `at`
ShowArgs == {Undefined, EventV, PosV, "{at:event}", "{at:pos}"}

\* `opts={}` and `if (opts instanceof Event) opts = {at: opts}`
remap(arg) ==
  IF arg = Undefined THEN "{}"
  ELSE IF arg = EventV THEN "{at:event}"
  ELSE arg

\* opts.at
at(opts) ==
  CASE opts = "{at:event}" -> EventV
    [] opts = "{at:pos}" -> PosV
    [] OTHER -> Undefined

\* show() after its preShow event; r: the state and the value of useModal
showFrom(r, opts) == emit(reposition(NativeOpen(r.s, r.val), at(opts)), "postShow", opts)

\* src/lib/dialog.js: show(opts)
show(s, arg) ==
  showFrom(ReadProp(emit(s, "preShow", remap(arg)), "useModal"), remap(arg))

\* the read of this.options.useModal
ReadOption(s, name) == [s |-> s, val |-> s.options[name]]

\* src/unnamed/part_002: show(opts)
show_0(s, arg) ==
  showFrom(ReadOption(emit(s, "preShow", remap(arg)), "useModal"), remap(arg))

\* elem.close()
NativeClose(s) ==
  IF ~Ok(s) THEN s
  ELSE Log([s EXCEPT !.elem.open = FALSE, !.elem.modal = FALSE],
           [ev |-> "elem.close", data |-> Undefined])

\* `if (reset) elem.style = null`
styleReset(s, reset) ==
  IF Ok(s) /\ Truthy(reset)
  THEN Log([s EXCEPT !.elem.style = ""], [ev |-> "elem.style = null", data |-> Undefined])
  ELSE s

\* close() once `reset` is decided; resetArg is opts.reset
closeFrom(s, resetArg, reset) ==
  emit(styleReset(NativeClose(emit(s, "preClose", resetArg)), reset),
       "postClose", resetArg)

\* src/lib/dialog.js: close(opts): reset = opts.reset ?? this.autoReset
closeRead(r, resetArg) == closeFrom(r.s, resetArg, r.val)

close(s, resetArg) ==
  IF resetArg \in {Undefined, Null}
  THEN closeRead(ReadProp(s, "autoReset"), resetArg)
  ELSE closeFrom(s, resetArg, resetArg)

\* src/unnamed/part_002: close(opts): reset = !!(opts.reset ?? this.options.autoReset)
close_0(s, resetArg) == closeFrom(s, resetArg, Nullish(resetArg, s.options["autoReset"]))

\* the method of the source that built the dialog
Show(s, arg) == IF s.impl = "lib" THEN show(s, arg) ELSE show_0(s, arg)
Close(s, resetArg) == IF s.impl = "lib" THEN close(s, resetArg) ELSE close_0(s, resetArg)

\* the getter isOpen: this.element.open
isOpen(s) == s.elem.open

\* the autoClose options as a body listener reads them
Aco(s) ==
  IF s.options["autoClose"] \in Refs THEN Deref(s, s.options["autoClose"]) ELSE EmptyObj

\* the end of a body listener: the cancel event, by the per-trigger option, then
\* emitCancel, then the trigger's default
emitCancel(s, own, dflt) ==
  IF Ok(s) /\ Truthy(Nullish(Prop(Aco(s), own), Nullish(Prop(Aco(s), "emitCancel"), dflt)))
  THEN Log(s, [ev |-> "cancel", data |-> Undefined])
  ELSE s

\* the head of a body listener: ev.preventDefault() or ev.stopPropagation(),
\* by the per-trigger option, then the shared one
evCall(s, own, shared, what) ==
  IF Ok(s) /\ Truthy(Nullish(Prop(Aco(s), own), Prop(Aco(s), shared)))
  THEN Log(s, [ev |-> what, data |-> Undefined])
  ELSE s

\* the body listeners postShow attaches: acb.click and acb.keyup (for Escape)
acb(s, which) ==
  IF which = "click"
  THEN emitCancel(
         Close(evCall(evCall(s, "clickPreventDefault", "preventDefault", "ev.preventDefault"),
                      "clickStopPropagation", "stopPropagation", "ev.stopPropagation"),
               Undefined),
         "clickEmitCancel", False)
  ELSE emitCancel(
         Close(evCall(evCall(s, "escPreventDefault", "preventDefault", "ev.preventDefault"),
                      "escStopPropagation", "stopPropagation", "ev.stopPropagation"),
               Undefined),
         "escEmitCancel", True)

\* the host dispatches a click, or an Escape keyup, on document.body: the
\* listeners attached when the event arrives run
RECURSIVE Dispatch(_, _, _, _)
Dispatch(s, attached, which, i) ==
  IF i > Len(attached) \/ ~Ok(s) THEN s
  ELSE Dispatch(IF attached[i] = which THEN acb(s, which) ELSE s, attached, which, i + 1)

-----------------------------------------------------------------------------
(* The calls a page makes, and their arguments *)

Pair(k, v) == <<k, v>>

\* a caller's `new C()` in an argument list
New(c) == [kind |-> "new", name |-> "", cls |-> c, id |-> 0]

\* the object literals and `new` expressions of the arguments are evaluated
\* before the call: a literal becomes a reference, `new C()` an instance
RECURSIVE InternOpts(_, _, _)
InternOpts(s, opts, i) ==
  IF i > Len(opts) THEN [s |-> s, opts |-> opts]
  ELSE IF opts[i][2] \in Literals
  THEN InternOpts(Alloc(s, LitObj(opts[i][2])),
                  [opts EXCEPT ![i] = Pair(opts[i][1], NewRef(s))], i + 1)
  ELSE InternOpts(s, opts, i + 1)

RECURSIVE InternItems(_, _, _)
InternItems(s, items, i) ==
  IF i > Len(items) THEN [s |-> s, items |-> items]
  ELSE IF items[i].kind = "new"
  THEN InternItems(NewInst(s, items[i].cls),
                   [items EXCEPT ![i] = ByInst(Len(s.insts) + 1)], i + 1)
  ELSE InternItems(s, items, i + 1)

NumLiterals(opts) == Cardinality({i \in 1..Len(opts) : opts[i][2] \in Literals})

ItemLists ==
  {<<a>> : a \in {ByName(n) : n \in PresetNames}
                   \cup {ByCtor(c) : c \in Classes}
                   \cup {New(c) : c \in {"AutoClose", "ContextMenu"}}
                   \cup {ByInst(i) : i \in 1..Len(insts)}}
  \cup {<<a, b>> : a, b \in {ByName("autoclose"), New("AutoClose")}}

\* the instances a call may create: one per name, constructor or `new`, and
\* one more for the preset a ContextMenu instance includes
Needs(item) ==
  (IF item.kind = "inst" THEN 0 ELSE 1)
  + (IF item.kind = "new" /\ item.cls = "ContextMenu" THEN 1 ELSE 0)
  + (IF item.kind = "inst" /\ insts[item.id].cls = "ContextMenu" THEN 1 ELSE 0)

Room(items) ==
  Len(insts) + Needs(items[1]) + (IF Len(items) > 1 THEN Needs(items[2]) ELSE 0)
    <= MaxInsts

NoCall ==
  [op |-> "none", name |-> "", val |-> Undefined, lsn |-> "none", to |-> Undefined,
   names |-> << >>, opts |-> << >>, items |-> << >>, ret |-> 0]

Init ==
  /\ phase = "none"
  /\ impl \in {"lib", "part_002"}
  /\ emitThrows \in BOOLEAN
  /\ made = [elemOk |-> FALSE, opts |-> << >>, given |-> FALSE, items |-> << >>]
  /\ options = NoOptions
  /\ plain = NoPlain
  /\ props = {}
  /\ aliases = NoAliases
  /\ defaults = NoDefaults
  /\ rules = NoRules
  /\ cache = NoCache
  /\ insts = << >>
  /\ handlers = << >>
  /\ heap = << >>
  /\ elem = [open |-> FALSE, modal |-> FALSE, style |-> ""]
  /\ body = << >>
  /\ log = << >>
  /\ raised = "none"
  /\ last = NoCall
  /\ offers = [c \in Classes |-> 0]
  /\ exported = Loaded.exports
  /\ catalog = presets
  /\ peer = [live |-> FALSE, options |-> NoOptions, defaults |-> NoDefaults,
             rules |-> NoRules, cache |-> NoCache]

\* the opts object of a constructor call: with its presets entry when one is given
WithPresets(opts, given) == IF given THEN opts \o <<Pair("presets", "array")>> ELSE opts

ConstructEnd(r, elemOk, full, given, items) ==
  /\ Commit(r)
  /\ phase' = IF Ok(r) THEN "live" ELSE "failed"
  /\ made' = [elemOk |-> elemOk, opts |-> full, given |-> given, items |-> items]
  /\ last' = [NoCall EXCEPT !.op = "new", !.opts = full, !.items = items]
  /\ UNCHANGED impl

ConstructRun(a, b, elemOk, full, given, items) ==
  ConstructEnd(IF impl = "lib"
               THEN constructor(b.s, elemOk, a.opts, given, b.items)
               ELSE constructor_0(b.s, elemOk, a.opts, given, b.items),
               elemOk, full, given, items)

ConstructArgs(a, elemOk, full, given, items) ==
  ConstructRun(a, InternItems(a.s, items, 1), elemOk, full, given, items)

\* new DialogHelper(elem, opts), with opts.presets = items when given; the
\* arguments are drawn from Opts and Lists
ConstructFrom(Opts, Lists) ==
  /\ phase = "none"
  /\ \E elemOk \in BOOLEAN, opts \in Opts, given \in BOOLEAN :
     \E items \in (IF given THEN Lists ELSE {<< >>}) :
       /\ given => Room(items)
       /\ ConstructArgs(InternOpts(St, WithPresets(opts, given), 1), elemOk,
                        WithPresets(opts, given), given, items)

Construct ==
  ConstructFrom({ << >>,
                  <<Pair("autoReset", True)>>,
                  <<Pair("useModal", True)>>,
                  <<Pair("autoClose", "{enabled:false}")>>,
                  <<Pair("autoReset", True), Pair("autoClose", "{emitCancel:true}")>> },
                ItemLists)

UseRun(b) ==
  /\ Commit(dialog_use(b.s, b.items))
  /\ last' = [NoCall EXCEPT !.op = "use", !.items = b.items]
  /\ UNCHANGED <<phase, impl, made>>

\* dialog.use(...items)
Use ==
  /\ phase = "live"
  /\ Len(heap) + 1 <= MaxHeap
  /\ \E items \in ItemLists :
       /\ Room(items)
       /\ UseRun(InternItems(St, items, 1))

ApplyEnd(r, items) ==
  /\ Commit(r)
  /\ last' = [NoCall EXCEPT !.op = "apply", !.items = items,
                            !.ret = Returned(r, items[1].id)]
  /\ UNCHANGED <<phase, impl, made>>

ApplyRun(b) == ApplyEnd(apply(b.s, b.items[1].id, 0), b.items)

\* preset.apply(dialog)
ApplyPreset ==
  /\ phase = "live"
  /\ Len(heap) + 1 <= MaxHeap
  /\ \E item \in {New(c) : c \in {"AutoClose", "ContextMenu"}}
                  \cup {ByInst(i) : i \in 1..Len(insts)} :
       /\ Room(<<item>>)
       /\ ApplyRun(InternItems(St, <<item>>, 1))

\* the registrations a page makes: names, default, rules
AddCalls ==
  { [names |-> <<"autoClose", "ac">>, defval |-> "{enabled:true}",
     rules |-> [nestedOptions |-> TRUE, cloneObject |-> Null]],
    [names |-> <<"autoClose", "ac">>, defval |-> "{enabled:true}",
     rules |-> [nestedOptions |-> TRUE, cloneObject |-> False]],
    [names |-> <<"autoClose", "ac">>, defval |-> "{enabled:true}",
     rules |-> [nestedOptions |-> FALSE, cloneObject |-> Null]],
    [names |-> <<"autoReset">>, defval |-> True,
     rules |-> [nestedOptions |-> FALSE, cloneObject |-> Null]],
    [names |-> <<"autoClose", "ac">>, defval |-> True,
     rules |-> [nestedOptions |-> FALSE, cloneObject |-> Null]],
    [names |-> <<"presets", "ac">>, defval |-> True,
     rules |-> [nestedOptions |-> FALSE, cloneObject |-> Null]] }

\* registrations that reuse an alias name of another option
AliasCalls ==
  { [names |-> <<"presets", "ac">>, defval |-> True,
     rules |-> [nestedOptions |-> FALSE, cloneObject |-> Null]],
    [names |-> <<"autoReset">>, defval |-> True,
     rules |-> [nestedOptions |-> FALSE, cloneObject |-> Null]],
    [names |-> <<"autoClose", "reset">>, defval |-> True,
     rules |-> [nestedOptions |-> FALSE, cloneObject |-> Null]],
    [names |-> <<"autoClose", "ac">>, defval |-> "{enabled:true}",
     rules |-> [nestedOptions |-> TRUE, cloneObject |-> Null]] }

AddRun(a, names, r) ==
  /\ Commit(addOption(a.s, names, a.opts[1][2], r))
  /\ last' = [NoCall EXCEPT !.op = "addOption", !.names = names, !.val = a.opts[1][2]]
  /\ UNCHANGED <<phase, impl, made>>

\* dialog.addOption(names, defval, rules), the call drawn from Calls
AddOptionFrom(Calls) ==
  /\ phase = "live"
  /\ impl = "lib"
  /\ \E c \in Calls :
       /\ Len(heap) + 2 * NumLiterals(<<Pair("defval", c.defval)>>) <= MaxHeap
       /\ AddRun(InternOpts(St, <<Pair("defval", c.defval)>>, 1), c.names, c.rules)

SetOpts ==
  { <<Pair("autoReset", True)>>,
    <<Pair("reset", True)>>,
    <<Pair("autoClose", "{enabled:false}")>>,
    <<Pair("ac", "{enabled:false}")>>,
    <<Pair("presets", True)>>,
    <<Pair("reset", True), Pair("autoReset", False)>> }

\* bulk-sets that name an alias next to a reserved name
AliasSets ==
  { <<Pair("ac", True), Pair("presets", True)>>,
    <<Pair("reset", True)>>,
    <<Pair("presets", True)>> }

SetOptionsRun(a) ==
  /\ Commit(setOptions(a.s, a.opts))
  /\ last' = [NoCall EXCEPT !.op = "setOptions", !.opts = a.opts]
  /\ UNCHANGED <<phase, impl, made>>

\* dialog.setOptions(opts), opts drawn from Opts
SetOptionsOf(Opts) ==
  /\ phase = "live"
  /\ impl = "lib"
  /\ \E opts \in Opts :
       /\ Len(heap) + NumLiterals(opts) <= MaxHeap
       /\ SetOptionsRun(InternOpts(St, opts, 1))

SetPropRun(a, name, lsn, to) ==
  /\ Commit(set(a.s, name, a.opts[1][2], lsn, to))
  /\ last' = [NoCall EXCEPT !.op = "set", !.name = name, !.val = a.opts[1][2],
                            !.lsn = lsn, !.to = to]
  /\ UNCHANGED <<phase, impl, made>>

\* dialog[name] = val on a registered option, with what a listener of
\* <name>$preSet does
SetProp ==
  /\ phase = "live"
  /\ Len(heap) + 1 <= MaxHeap
  /\ \E name \in props, val \in {True, Undefined, Null, "{emitCancel:true}"},
        lsn \in {"none", "veto", "rewrite"} :
     \E to \in (IF lsn = "rewrite" THEN {False} ELSE {Undefined}) :
       /\ lsn # "none" => val = True
       /\ SetPropRun(InternOpts(St, <<Pair(name, val)>>, 1), name, lsn, to)

GetPropEnd(r, name, lsn, to) ==
  /\ Commit(r.s)
  /\ last' = [NoCall EXCEPT !.op = "get", !.name = name, !.val = r.val,
                            !.lsn = lsn, !.to = to]
  /\ UNCHANGED <<phase, impl, made>>

\* dialog[name] on a registered option, with what a listener of <name>$get does
GetProp ==
  /\ phase = "live"
  /\ \E name \in props, lsn \in {"none", "rewrite"} :
     \E to \in (IF lsn = "rewrite" THEN {True} ELSE {Undefined}) :
       GetPropEnd(getWith(St, name, lsn, to), name, lsn, to)

\* a caller writes one key of a stored nested value: dialog.options[name][k] = v
Mutate ==
  /\ phase = "live"
  /\ \E name \in OptNames, k \in {"enabled"}, v \in {False} :
       /\ options[name] \in Refs
       /\ Commit([St EXCEPT !.heap[RefIndex(options[name])][k] = v])
       /\ last' = [NoCall EXCEPT !.op = "mutate", !.name = name, !.val = v]
       /\ UNCHANGED <<phase, impl, made>>

\* dialog.show(arg)
ShowDialog ==
  /\ phase = "live"
  /\ \E arg \in ShowArgs :
       /\ Commit(Show(St, arg))
       /\ last' = [NoCall EXCEPT !.op = "show", !.val = arg]
       /\ UNCHANGED <<phase, impl, made>>

\* dialog.close({reset: resetArg}), or dialog.close() when resetArg is undefined
CloseDialog ==
  /\ phase = "live"
  /\ \E resetArg \in {Undefined, True, False} :
       /\ Commit(Close(St, resetArg))
       /\ last' = [NoCall EXCEPT !.op = "close", !.val = resetArg]
       /\ UNCHANGED <<phase, impl, made>>

\* a click, or an Escape keyup, reaches document.body
BodyEvent ==
  /\ phase = "live"
  /\ \E which \in {"click", "keyup"} :
       /\ Commit(Dispatch(St, body, which, 1))
       /\ last' = [NoCall EXCEPT !.op = "body", !.name = which]
       /\ UNCHANGED <<phase, impl, made>>

AddPresetEnd(r, c, cname) ==
  /\ exported' = r.exports
  /\ catalog' = r.presets
  /\ raised' = r.raised
  /\ log' = << >>
  /\ last' = [NoCall EXCEPT !.op = "presets.add", !.name = cname, !.val = c]
  /\ UNCHANGED <<phase, impl, emitThrows, made, options, plain, props, aliases, defaults,
                 rules, cache, insts, handlers, heap, elem, body, offers, peer>>

\* presets.add(presetClass, cname)
AddPreset ==
  \E c \in {"AutoClose", "ContextMenu", "Preset", "Object"},
     cname \in (Names \ PresetNames) \cup {"autoclose", Undefined} :
    AddPresetEnd(add([exports |-> exported, presets |-> catalog, raised |-> "none"],
                     c, cname),
                 c, cname)

\* presets.get(name)
GetPreset ==
  \E name \in Names :
    /\ raised' = IF trim(name) = "" THEN "TypeError" ELSE "none"
    /\ log' = << >>
    /\ last' = [NoCall EXCEPT !.op = "presets.get", !.name = name,
                              !.val = IF trim(name) = "" THEN Undefined
                                      ELSE presets_get(name)]
    /\ UNCHANGED <<phase, impl, emitThrows, made, options, plain, props, aliases, defaults,
                   rules, cache, insts, handlers, heap, elem, body, offers, exported,
                   catalog, peer>>

RegisterEnd(r1, r2, defval, c) ==
  /\ Assigned([r1 EXCEPT !.heap = r2.heap, !.raised = r2.raised])
  /\ peer' = [live |-> TRUE, options |-> r2.options, defaults |-> r2.defaults,
              rules |-> r2.rules, cache |-> r2.cache]
  /\ last' = [NoCall EXCEPT !.op = "addOption.both", !.names = c.names, !.val = defval]
  /\ UNCHANGED <<phase, impl, made, emitThrows, exported, catalog>>

RegisterSecond(r1, defval, c) ==
  RegisterEnd(r1,
              addOption(constructor([r1 EXCEPT !.plain = NoPlain, !.handlers = << >>,
                                                !.log = << >>,
                                                !.elem = [open |-> FALSE, modal |-> FALSE,
                                                          style |-> ""]],
                                    TRUE, << >>, FALSE, << >>),
                        c.names, defval, c.rules),
              defval, c)

RegisterFirst(a, c) ==
  RegisterSecond(addOption(a.s, c.names, a.opts[1][2], c.rules), a.opts[1][2], c)

\* defs = {...}; d.addOption(names, defs, rules);
\* d2 = new DialogHelper(elem2); d2.addOption(names, defs, rules)
RegisterShared ==
  /\ phase = "live"
  /\ impl = "lib"
  /\ ~ peer.live
  /\ \E c \in { [names |-> <<"autoClose", "ac">>, defval |-> "{enabled:true}",
                  rules |-> [nestedOptions |-> TRUE, cloneObject |-> Null]],
                 [names |-> <<"autoClose", "ac">>, defval |-> "{enabled:true}",
                  rules |-> [nestedOptions |-> TRUE, cloneObject |-> False]] } :
       /\ Len(heap) + 3 <= MaxHeap
       /\ RegisterFirst(InternOpts(St, <<Pair("defval", c.defval)>>, 1), c)

AddOption == AddOptionFrom(AddCalls)

SetOptions == SetOptionsOf(SetOpts)

Next ==
  \/ Construct
  \/ Use
  \/ AddOptionFrom(AddCalls \cup AliasCalls)
  \/ SetOptionsOf(SetOpts \cup AliasSets)
  \/ SetProp
  \/ GetProp
  \/ Mutate
  \/ ShowDialog
  \/ CloseDialog
  \/ BodyEvent
  \/ ApplyPreset
  \/ RegisterShared
  \/ AddPreset
  \/ GetPreset

Spec == Init /\ [][Next]_vars

\* a page that works with the option registry of its dialog
NextOptions ==
  \/ ConstructFrom({<< >>, <<Pair("autoClose", "{enabled:false}")>>,
                    <<Pair("autoReset", True)>>},
                   {<<New("AutoClose")>>})
  \/ AddOption
  \/ SetOptions
  \/ SetProp
  \/ GetProp
  \/ Mutate
  \/ CloseDialog

SpecOptions == Init /\ [][NextOptions]_vars

\* a page that applies presets to its dialog, and opens and closes it
NextPresets ==
  \/ Construct
  \/ Use
  \/ ShowDialog
  \/ CloseDialog
  \/ BodyEvent

SpecPresets == Init /\ [][NextPresets]_vars

\* a page whose dialog has the AutoClose preset, opened and closed, with
\* clicks and Escape keys reaching the body
NextTriggers ==
  \/ ConstructFrom(
       { << >>,
         <<Pair("autoClose", "{emitCancel:true}")>>,
         <<Pair("autoClose", "{nonModalEsc:true}")>>,
         <<Pair("autoClose", "{clickEmitCancel:true,emitCancel:false,preventDefault:true}")>>,
         <<Pair("autoClose", "{nonModalEsc:true,escEmitCancel:false,escStopPropagation:true}")>>,
         <<Pair("autoClose", "{enabled:false}")>> },
       {<<New("AutoClose")>>})
  \/ ShowDialog
  \/ CloseDialog
  \/ BodyEvent

SpecTriggers == Init /\ [][NextTriggers]_vars

\* a page that applies presets to its dialog, through the dialog or directly
NextApply ==
  \/ Construct
  \/ Use
  \/ ApplyPreset

SpecApply == Init /\ [][NextApply]_vars

\* a page that registers options under shared alias names and bulk-sets them
NextRegistry ==
  \/ ConstructFrom({<< >>}, {<<New("AutoClose")>>})
  \/ AddOptionFrom(AliasCalls)
  \/ SetOptionsOf(AliasSets)
  \/ GetProp

SpecRegistry == Init /\ [][NextRegistry]_vars

\* a page with two dialogs that register one nested option from one default
\* object, and writes, reads and re-registers options on the first
NextShared ==
  \/ ConstructFrom({<< >>}, {<<ByName("autoclose")>>})
  \/ RegisterShared
  \/ peer.live /\ Mutate
  \/ peer.live /\ SetProp
  \/ peer.live /\ \E name \in props, val \in {Null, True} :
       SetPropRun(InternOpts(St, <<Pair(name, val)>>, 1), name, "none", Undefined)
  \/ peer.live /\ GetProp
  \/ peer.live /\ AddOption
  \/ peer.live /\ SetOptions

SpecShared == Init /\ [][NextShared]_vars

\* a page that registers preset classes in the catalog and looks names up
NextCatalog ==
  \/ AddPreset
  \/ GetPreset

SpecCatalog == Init /\ [][NextCatalog]_vars

-----------------------------------------------------------------------------
(* Properties *)

\* how many listeners with function fn are installed on the dialog
Installed(fn) == Cardinality({i \in DOMAIN handlers : handlers[i][2] = fn})

\* where the last call's log has an entry ev
Where(ev) == {i \in DOMAIN log : log[i].ev = ev}

\* C1: once the AutoClose preset has been offered to the dialog two or more
\* times (by name, by constructor or by instance), its two event listeners are
\* installed exactly once and its option object autoClose is present: the later
\* applications add nothing.
C1_InstalledOnce ==
  offers["AutoClose"] >= 2 =>
    /\ Installed("DIAG_EVENTS.postShow") = 1
    /\ Installed("DIAG_EVENTS.postClose") = 1
    /\ options["autoClose"] \in Refs

\* C2: a use() call whose item is a name or a constructor that resolves to a
\* preset class C not yet in the dialog's PresetsCache, and that ends without an
\* exception, leaves the cache mapping C to an instance of C; for AutoClose the
\* declared listeners and the option autoClose.enabled are installed.
C2_UseInstantiates ==
  [][ ( /\ last'.op = "use"
        /\ Len(last'.items) = 1
        /\ last'.items[1].kind \in {"name", "ctor"}
        /\ isaPreset(Resolved(last'.items[1]))
        /\ cache[Resolved(last'.items[1])] = 0
        /\ raised' = "none" )
      => ( /\ cache'[Resolved(last'.items[1])] # 0
           /\ insts'[cache'[Resolved(last'.items[1])]].cls = Resolved(last'.items[1])
           /\ Resolved(last'.items[1]) = "AutoClose" =>
                /\ Installed("DIAG_EVENTS.postShow")' >= 1
                /\ Installed("DIAG_EVENTS.postClose")' >= 1
                /\ options'["autoClose"] \in Refs ) ]_vars

\* the dialog was made by new DialogHelper(elem, {autoReset: true, presets: ['autoclose']})
C3_Made ==
  /\ made.elemOk
  /\ made.given
  /\ made.opts = <<Pair("autoReset", True), Pair("presets", "array")>>
  /\ made.items = <<ByName("autoclose")>>

\* C3: a dialog made with {autoReset: true, presets: ['autoclose']} exists; after
\* show() it is open with a click listener on the body; after a body click it is
\* closed, and no cancel event was dispatched (click emission is not enabled).
C3_ClickCloses ==
  C3_Made =>
    /\ phase # "failed"
    /\ last.op = "show" => (elem.open /\ \E i \in DOMAIN body : body[i] = "click")
    /\ (last.op = "body" /\ last.name = "click") => (~elem.open /\ Where("cancel") = {})

\* the write of object v to the nested option n that the step just made
C4_Write(n, v) ==
  /\ n \in props
  /\ rules[n].nestedOptions
  /\ options[n] \in Refs
  /\ v \in Refs

\* the stored object of n after the step is the one before it with v's keys laid over
C4_Merged(n, v) ==
  /\ options'[n] \in Refs
  /\ \A k \in Keys :
       heap'[RefIndex(options'[n])][k] =
         IF heap'[RefIndex(v)][k] # Undefined
         THEN heap'[RefIndex(v)][k]
         ELSE heap[RefIndex(options[n])][k]

\* C4: a write of an object v to an option registered with nestedOptions whose
\* stored value is an object, through the accessor without a listener or through
\* setOptions under the primary name, merges: every key of v holds v's value and
\* every other key keeps its previous value.
C4_NestedMerge ==
  [][ /\ (last'.op = "set" /\ last'.lsn = "none" /\ C4_Write(last'.name, last'.val))
           => C4_Merged(last'.name, last'.val)
      /\ (last'.op = "setOptions" /\ Len(last'.opts) = 1
            /\ C4_Write(last'.opts[1][1], last'.opts[1][2]))
           => C4_Merged(last'.opts[1][1], last'.opts[1][2]) ]_vars

\* C5: writing null to an option registered with nestedOptions (cloneObject not
\* false) whose declared default is an object leaves the stored value an object
\* other than the default, with exactly the default's keys and values, and the
\* declared default as it was.
C5_ResetFresh ==
  [][ ( /\ last'.op = "set"
        /\ last'.lsn = "none"
        /\ last'.val = Null
        /\ rules[last'.name].nestedOptions
        /\ rules[last'.name].cloneObject # False
        /\ defaults[last'.name] \in Refs )
      => ( /\ options'[last'.name] \in Refs
           /\ options'[last'.name] # defaults'[last'.name]
           /\ defaults'[last'.name] = defaults[last'.name]
           /\ heap'[RefIndex(options'[last'.name])] = heap[RefIndex(defaults[last'.name])]
           /\ heap'[RefIndex(defaults'[last'.name])] = heap[RefIndex(defaults[last'.name])] )
    ]_vars

\* the primary name a key of setOptions stands for
C6_Primary(k) == IF aliases[k] # NoName THEN aliases[k] ELSE k

\* C6: setOptions({k: v}) with a defined v, where k is the primary name or an
\* alias of a registered option p (without nestedOptions), stores v under p and
\* creates no entry under an alias name.
C6_AliasSame ==
  [][ ( /\ last'.op = "setOptions"
        /\ Len(last'.opts) = 1
        /\ C6_Primary(last'.opts[1][1]) \in props
        /\ ~rules[C6_Primary(last'.opts[1][1])].nestedOptions
        /\ last'.opts[1][2] # Undefined )
      => ( /\ options'[C6_Primary(last'.opts[1][1])] = last'.opts[1][2]
           /\ last'.opts[1][1] # C6_Primary(last'.opts[1][1])
                => options'[last'.opts[1][1]] = options[last'.opts[1][1]] ) ]_vars

\* C7: a write to a registered option whose value (after a listener's rewrite)
\* fails the option's valid test leaves dialog.options unchanged, raises nothing,
\* and emits <name>$postSet exactly once.
C7_InvalidWrite ==
  [][ ( /\ last'.op = "set"
        /\ last'.lsn # "veto"
        /\ ~valid(rules[last'.name],
                  IF last'.lsn = "rewrite" THEN last'.to ELSE last'.val) )
      => ( /\ options' = options
           /\ raised' = "none"
           /\ Cardinality(Where(last.name \o "$postSet")') = 1 ) ]_vars

\* C8: every write to a registered option emits <name>$preSet and then
\* <name>$postSet, each exactly once; a listener's veto leaves the stored value
\* unchanged, and a listener's rewrite to a valid value stores that value.
C8_PreThenPost ==
  [][ last'.op = "set"
      => ( /\ Cardinality(Where(last.name \o "$preSet")') = 1
           /\ Cardinality(Where(last.name \o "$postSet")') = 1
           /\ \A i \in Where(last.name \o "$preSet")', j \in Where(last.name \o "$postSet")' :
                i < j
           /\ last'.lsn = "veto" => options'[last'.name] = options[last'.name]
           /\ (last'.lsn = "rewrite" /\ ~rules[last'.name].nestedOptions
                 /\ valid(rules[last'.name], last'.to))
                => options'[last'.name] = last'.to ) ]_vars

\* C9: after close(opts) the inline style was cleared if and only if the reset
\* decision is true: opts.reset when given, the autoReset option otherwise.
C9_ResetIff ==
  last.op = "close" =>
    IF Truthy(Nullish(last.val, options["autoReset"]))
    THEN Where("elem.style = null") # {} /\ elem.style = ""
    ELSE Where("elem.style = null") = {}

\* C10: show(e) with an Event e and show({at: e}) alike emit preShow with
\* {at: e}, open the element natively, reposition exactly once from e, and then
\* emit postShow with {at: e}; show() without opts.at does not reposition.
C10_ShowEvent ==
  last.op = "show" =>
    /\ last.val \in {EventV, "{at:event}"} =>
         /\ Cardinality(Where("reposition")) = 1
         /\ \A i \in Where("reposition") :
              /\ log[i].data = EventV
              /\ \E j \in Where("elem.show") \cup Where("elem.showModal") : j < i
              /\ \E j \in Where("postShow") : i < j /\ log[j].data = "{at:event}"
         /\ \E j \in Where("preShow") : log[j].data = "{at:event}"
    /\ last.val \in {Undefined, PosV} => Where("reposition") = {}

\* the name the add() call of the step registers: cname, or the class name
\* without its Preset suffix
C11_Name ==
  IF last'.name = Undefined \/ trim(last'.name) = ""
  THEN SUFFIX(className(last'.val)) ELSE last'.name

\* C11: after add(C, name) succeeds, get() of every case variant of the name
\* returns C; an add() of a preset class under a name that is already in the
\* catalog, exactly or ignoring case, fails with a RangeError and leaves the
\* exports and the catalog unchanged.
C11_CatalogNames ==
  [][ last'.op = "presets.add" =>
        /\ raised' = "none" =>
             \A v \in Names \ {" "} :
               toLowerCase(v) = toLowerCase(C11_Name) => presets_get(v)' = last'.val
        /\ (isaPreset(last'.val) /\ catalog[toLowerCase(C11_Name)] # Undefined) =>
             (raised' = "RangeError" /\ exported' = exported /\ catalog' = catalog) ]_vars

\* Foo is registered, and add(C, 'foo') was refused
C11_Witness ==
  /\ last.op = "presets.add"
  /\ last.name = "foo"
  /\ isaPreset(last.val)
  /\ raised = "RangeError"
  /\ exported["Foo"] # Undefined
  /\ presets_get("FOO") = exported["Foo"]

\* C12: an addOption call whose primary name is already registered leaves the
\* option's stored value and the set of accessors as they were, and every other
\* option's default, rules and stored value too.
C12_ReRegister ==
  [][ (last'.op = "addOption" /\ last'.names[1] \in props) =>
        /\ options'[last'.names[1]] = options[last'.names[1]]
        /\ props' = props
        /\ \A n \in OptNames \ {last'.names[1]} :
             /\ defaults'[n] = defaults[n]
             /\ rules'[n] = rules[n]
             /\ options'[n] = options[n] ]_vars

\* C13: an addOption call whose primary name is reserved raises nothing and
\* leaves the registry and dialog.options unchanged: no accessor, default, rule,
\* stored value or alias is added.
C13_ReservedRefused ==
  [][ (last'.op = "addOption" /\ last'.names[1] \in SKIP_OPTS) =>
        /\ raised' = "none"
        /\ props' = props
        /\ defaults' = defaults
        /\ rules' = rules
        /\ options' = options
        /\ aliases' = aliases ]_vars

\* C14: dialog.options never holds a value under a reserved name.
C14_NoReservedEntry ==
  \A n \in SKIP_OPTS \cup SKIP_OPTS_0 : n \in OptNames => options[n] = Undefined

\* C15: every alias maps to a registered primary name, no alias is itself a
\* registered primary name, and a registration never re-points an alias that
\* was already mapped.
C15_AliasMap ==
  [][ /\ \A a \in OptNames :
           aliases'[a] # NoName => (aliases'[a] \in props' /\ a \notin props')
      /\ \A a \in OptNames :
           (last'.op = "addOption" /\ aliases[a] # NoName) => aliases'[a] = aliases[a] ]_vars

\* the last call offered one instance that existed, and had an owner, before
C16_Owned ==
  /\ last'.op \in {"use", "apply"}
  /\ Len(last'.items) = 1
  /\ last'.items[1].kind = "inst"
  /\ last'.items[1].id <= Len(insts)
  /\ insts[last'.items[1].id].dialog

\* C16: a preset instance has at most one owner, set once: applying an instance
\* that already has an owner, through dialog.use or through its own apply,
\* fails with the RangeError "already registered" and changes neither the
\* instances' owner and originating-preset references nor the dialog's
\* PresetsCache, options or listeners; and no step changes the owner or the
\* originating preset of an instance that has an owner.
C16_OneOwner ==
  [][ /\ C16_Owned =>
           /\ raised' = "RangeError"
           /\ insts' = insts
           /\ cache' = cache
           /\ options' = options
           /\ heap' = heap
           /\ handlers' = handlers
      /\ \A i \in DOMAIN insts : insts[i].dialog => insts'[i] = insts[i] ]_vars

C16_Witness ==
  /\ last.op = "apply"
  /\ last.items = <<ByInst(1)>>
  /\ raised = "RangeError"
  /\ insts[1].dialog
  /\ cache[insts[1].cls] = 1

\* the last call was apply on an instance without an owner whose class the
\* dialog's PresetsCache held already
C17_Again ==
  /\ last'.op = "apply"
  /\ cache[insts'[last'.items[1].id].cls] # 0
  /\ ~ (last'.items[1].id <= Len(insts) /\ insts[last'.items[1].id].dialog)

\* C17 (as claimed): apply with a preset whose class is already in the dialog's
\* PresetsCache returns the instance cached for that class, and leaves the
\* offered instance without an owner and unrecorded.
C17_ReturnsCached ==
  [][ C17_Again =>
        /\ last'.ret = cache[insts'[last'.items[1].id].cls]
        /\ ~ insts'[last'.items[1].id].dialog
        /\ cache'[insts'[last'.items[1].id].cls] # last'.items[1].id ]_vars

\* C17 (amended): apply with a preset whose class is already in the dialog's
\* PresetsCache does not raise and returns the offered instance itself, not the
\* cached one; the offered instance is left without an owner and unrecorded,
\* and the cache, the options and the listeners are unchanged.
C17_ReturnsThis ==
  [][ C17_Again =>
        /\ raised' = "none"
        /\ last'.ret = last'.items[1].id
        /\ last'.ret # cache[insts'[last'.items[1].id].cls]
        /\ ~ insts'[last'.items[1].id].dialog
        /\ insts'[last'.items[1].id].via = 0
        /\ cache' = cache
        /\ options' = options
        /\ heap' = heap
        /\ handlers' = handlers ]_vars

C17_Witness ==
  /\ last.op = "apply"
  /\ raised = "none"
  /\ last.ret = 2
  /\ cache[insts[2].cls] = 1
  /\ ~ insts[2].dialog

\* the option named k holds the value v the caller gave: the scalar itself, or
\* an object with every key of the caller's literal at the caller's value
C18_Holds(k, v) ==
  IF v \in Literals
  THEN /\ options[k] \in Refs
       /\ \A key \in Keys :
            LitObj(v)[key] # Undefined => heap[RefIndex(options[k])][key] = LitObj(v)[key]
  ELSE options[k] = v

\* C18: the option defaults a preset contributes never override a value the
\* caller set in the dialog constructor: on a constructed dialog, whether
\* presets were applied during construction or later through use() or apply(),
\* every option the constructor was given still holds the caller's value.
C18_CallerKept ==
  phase = "live" =>
    \A i \in DOMAIN made.opts :
      made.opts[i][1] \notin SKIP_OPTS_0 => C18_Holds(made.opts[i][1], made.opts[i][2])

C18_Witness ==
  /\ phase = "live"
  /\ made.opts = <<Pair("autoClose", "{enabled:false}")>>
  /\ last.op = "use"
  /\ raised = "none"
  /\ cache["AutoClose"] # 0
  /\ insts[cache["AutoClose"]].dialog
  /\ Installed("DIAG_EVENTS.postShow") = 1
  /\ heap[RefIndex(options["autoClose"])]["enabled"] = False

\* C19: a step that applies the ContextMenu preset to the dialog does not raise
\* and leaves the AutoClose preset applied, its listeners installed exactly
\* once, useModal false, autoReset true and autoClose.nonModalEsc true.
C19_ContextMenu ==
  [][ (cache["ContextMenu"] = 0 /\ cache'["ContextMenu"] # 0) =>
        /\ raised' = "none"
        /\ cache'["AutoClose"] # 0
        /\ Installed("DIAG_EVENTS.postShow")' = 1
        /\ Installed("DIAG_EVENTS.postClose")' = 1
        /\ ~ Truthy(options'["useModal"])
        /\ options'["autoReset"] = True
        /\ options'["autoClose"] \in Refs
        /\ heap'[RefIndex(options'["autoClose"])]["nonModalEsc"] = True ]_vars

\* C20: reading a registered option through its generated accessor returns the
\* value stored under the primary name, or the value a <name>$get listener
\* put in its place; the read does not raise and changes neither the options
\* nor the objects they hold.
C20_Read ==
  [][ last'.op = "get" =>
        /\ raised' = "none"
        /\ last'.val = (IF last'.lsn = "rewrite" THEN last'.to ELSE options[last'.name])
        /\ options' = options
        /\ heap' = heap ]_vars

\* a click, or an Escape keyup, on the body is an auto-close trigger: the dialog
\* is open with the AutoClose preset applied and enabled, and for Escape it is
\* not modal and nonModalEsc is set
C21_Fires(which) ==
  /\ elem.open
  /\ cache["AutoClose"] # 0
  /\ options["autoClose"] \in Refs
  /\ Truthy(heap[RefIndex(options["autoClose"])]["enabled"])
  /\ which = "keyup" =>
       /\ ~ Truthy(options["useModal"])
       /\ Truthy(heap[RefIndex(options["autoClose"])]["nonModalEsc"])

\* the per-trigger option when it is set, else the shared one, else the default
C21_Effective(own, shared, dflt) ==
  Truthy(Nullish(heap[RefIndex(options["autoClose"])][own],
                 Nullish(heap[RefIndex(options["autoClose"])][shared], dflt)))

C21_Own(which, what) == (IF which = "click" THEN "click" ELSE "esc") \o what

\* C21: when an auto-close trigger fires, a cancel event is dispatched on the
\* element iff the effective setting is true (clickEmitCancel or escEmitCancel
\* when set, else emitCancel when set, else false for click and true for
\* Escape), and preventDefault and stopPropagation are called iff their
\* per-trigger option, else the shared one (default false), is true.
C21_Triggers ==
  [][ (last'.op = "body" /\ C21_Fires(last'.name)) =>
        /\ (Where("cancel")' # {})
             <=> C21_Effective(C21_Own(last'.name, "EmitCancel"), "emitCancel",
                               IF last'.name = "click" THEN False ELSE True)
        /\ (Where("ev.preventDefault")' # {})
             <=> C21_Effective(C21_Own(last'.name, "PreventDefault"), "preventDefault", False)
        /\ (Where("ev.stopPropagation")' # {})
             <=> C21_Effective(C21_Own(last'.name, "StopPropagation"), "stopPropagation",
                               False) ]_vars

\* the AutoClose preset is applied to the dialog and enabled
C22_Enabled ==
  /\ cache["AutoClose"] # 0
  /\ options["autoClose"] \in Refs
  /\ Truthy(heap[RefIndex(options["autoClose"])]["enabled"])

\* how many auto-close listeners of one event the body carries
C22_Count(which) == Cardinality({i \in DOMAIN body : body[i] = which})

\* C22: with the AutoClose preset applied and enabled, after any sequence of
\* show() and close() calls the body carries at most one auto-close click
\* listener and at most one keyup listener, and none while the dialog is
\* closed; a click or an Escape key on the body of a closed dialog does not
\* invoke close() again.
C22_BodyListeners ==
  [][ /\ C22_Enabled' =>
           /\ C22_Count("click")' <= 1
           /\ C22_Count("keyup")' <= 1
           /\ ~ elem'.open => body' = << >>
      /\ (C22_Enabled /\ last'.op = "body" /\ ~ elem.open) =>
           /\ Where("preClose")' = {}
           /\ Where("elem.close")' = {}
           /\ elem' = elem ]_vars

C22_Witness ==
  /\ C22_Enabled
  /\ last.op = "body"
  /\ last.name = "click"
  /\ ~ elem.open
  /\ elem.style = "positioned"
  /\ body = << >>

\* where the last call's log says that apply on the instance of class c got
\* as far as ev
C23_Where(ev, c) == {i \in DOMAIN log : log[i].ev = ev /\ log[i].data = c}

\* the steps a and b of the application of class c happened once each, a first
C23_Then(a, b, c) ==
  /\ Cardinality(C23_Where(a, c)) = 1
  /\ Cardinality(C23_Where(b, c)) = 1
  /\ \A i \in C23_Where(a, c), j \in C23_Where(b, c) : i < j

\* the classes a preset of class c includes
C23_Included(c) == {includes(c)[n].cls : n \in DOMAIN includes(c)}

\* C23: a step that applies a preset of class c to the dialog for the first
\* time records it in the PresetsCache with its owner, then installs its
\* options, then its listeners, then applies its included presets, and only
\* then runs its hook; every included class is then in the same PresetsCache,
\* and one applied by this step was applied between the listeners and the hook
\* with this preset as its originating preset.
C23_Order ==
  [][ \A c \in Classes :
        (cache[c] = 0 /\ cache'[c] # 0) =>
          /\ insts'[cache'[c]].dialog
          /\ C23_Then("apply.recorded", "apply.options", c)'
          /\ C23_Then("apply.options", "apply.events", c)'
          /\ C23_Then("apply.events", "apply.setup", c)'
          /\ \A k \in C23_Included(c) :
               /\ cache'[k] # 0
               /\ cache[k] = 0 =>
                    /\ insts'[cache'[k]].via = cache'[c]
                    /\ \A i \in C23_Where("apply.events", c)',
                          j \in C23_Where("apply.recorded", k)' : i < j
                    /\ \A i \in C23_Where("apply.setup", k)',
                          j \in C23_Where("apply.setup", c)' : i < j ]_vars

\* the last call logged ev exactly once
C24_Once(ev) == Cardinality(Where(ev)) = 1

\* every entry a of the last call's log comes before every entry b
C24_Before(a, b) == \A i \in Where(a), j \in Where(b) : i < j

\* the native open call show() has to make
C24_Open == IF options["useModal"] = True THEN "elem.showModal" ELSE "elem.show"

\* C24: every show() emits preShow, makes the native open call (showModal iff
\* useModal is true, show otherwise) and emits postShow, each once and in that
\* order; every close() emits preClose, closes the element, resets the style at
\* most once and emits postClose, in that order; after either call isOpen is
\* the element's open state.
C24_ShowClose ==
  /\ last.op = "show" =>
       /\ C24_Once("preShow")
       /\ C24_Once(C24_Open)
       /\ Cardinality(Where("elem.showModal") \cup Where("elem.show")) = 1
       /\ C24_Once("postShow")
       /\ C24_Before("preShow", C24_Open)
       /\ C24_Before(C24_Open, "postShow")
       /\ isOpen(St) = elem.open
  /\ last.op = "close" =>
       /\ C24_Once("preClose")
       /\ C24_Once("elem.close")
       /\ Cardinality(Where("elem.style = null")) <= 1
       /\ C24_Once("postClose")
       /\ C24_Before("preClose", "elem.close")
       /\ C24_Before("elem.close", "elem.style = null")
       /\ C24_Before("elem.style = null", "postClose")
       /\ C24_Before("elem.close", "postClose")
       /\ isOpen(St) = elem.open

\* the entries of the last call's log that are <name>$preSet or <name>$postSet
C25_Sets ==
  {i \in DOMAIN log : \E n \in OptNames : log[i].ev \in {n \o "$preSet", n \o "$postSet"}}

\* every preset the constructor was given is one: an instance, or a name or
\* constructor of a Preset subclass
C25_Valid ==
  \A i \in DOMAIN made.items :
    made.items[i].kind = "new" \/ isaPreset(Resolved(made.items[i]))

\* C25: the constructor of src/lib/dialog.js registers useModal (alias modal)
\* and autoReset (alias reset) with default false, then applies the requested
\* presets, then bulk-sets the explicit options, and emits `constructed` once,
\* as its last step; given something that is no dialog element it raises
\* before any of this and emits nothing.
C25_Constructed ==
  (last.op = "new" /\ impl = "lib" /\ C25_Valid) =>
    IF made.elemOk
    THEN /\ phase = "live"
         /\ raised = "none"
         /\ {"useModal", "autoReset"} \subseteq props
         /\ aliases["modal"] = "useModal"
         /\ aliases["reset"] = "autoReset"
         /\ defaults["useModal"] = False
         /\ defaults["autoReset"] = False
         /\ Cardinality(Where("constructed")) = 1
         /\ log[Len(log)].ev = "constructed"
         /\ made.given => Cardinality(Where("used")) = 1
         /\ \A i \in Where("used"), j \in C25_Sets : i < j
    ELSE /\ phase = "failed"
         /\ raised = "TypeError"
         /\ log = << >>
         /\ props = {}
         /\ cache = NoCache

\* every entry of the PresetsCache maps a class to an instance of that class
\* owned by the dialog, and every instance the dialog owns is the cached one
\* of its class
C26_Entries ==
  /\ \A c \in Classes :
       cache[c] # 0 =>
         /\ cache[c] \in DOMAIN insts
         /\ insts[cache[c]].cls = c
         /\ insts[cache[c]].dialog
  /\ \A i \in DOMAIN insts : insts[i].dialog => cache[insts[i].cls] = i

\* C26: in every reachable state each entry of the dialog's PresetsCache maps
\* a preset class C to an instance of C whose owner is the dialog, and every
\* instance the dialog owns is the cached instance of its class; no step
\* removes or replaces an entry.
C26_CacheGrows ==
  [][ /\ C26_Entries'
      /\ \A c \in Classes : cache[c] # 0 => cache'[c] = cache[c] ]_vars

C26_Witness ==
  /\ last.op = "use"
  /\ last.items = <<ByInst(2)>>
  /\ raised = "none"
  /\ cache = [NoCache EXCEPT !["AutoClose"] = 1]
  /\ insts[1].dialog
  /\ insts[2].cls = "AutoClose"
  /\ ~ insts[2].dialog

\* the content of the object v refers to, or v itself when it is no reference
C27_Content(h, v) == IF v \in Refs /\ RefIndex(v) <= Len(h) THEN h[RefIndex(v)] ELSE v

\* the step leaves the second dialog alone: its stored value of the shared
\* option, the content of that value, its PresetsCache, and the declared
\* default object with its content
C27_Untouched ==
  /\ peer' = peer
  /\ C27_Content(heap', peer.options["autoClose"]) = C27_Content(heap, peer.options["autoClose"])
  /\ C27_Content(heap', peer.defaults["autoClose"])
       = C27_Content(heap, peer.defaults["autoClose"])

\* C27 (as claimed): two dialogs that registered the same nested option from
\* the same default object share no option state: no write, merge, reset or
\* registration on the first dialog changes the second dialog's stored value,
\* its PresetsCache or the declared default object.
C27_NoSharing ==
  [][ (peer.live /\ peer.rules["autoClose"].nestedOptions) => C27_Untouched ]_vars

\* C27 (amended): the same, for a nested option registered without the rule
\* cloneObject: false; each dialog then stores its own copy of the default
\* object.
C27_NoSharingCloned ==
  [][ (peer.live /\ peer.rules["autoClose"].nestedOptions
         /\ peer.rules["autoClose"].cloneObject # False)
      => /\ C27_Untouched
         /\ peer.options["autoClose"] \in Refs
         /\ peer.options["autoClose"] # peer.defaults["autoClose"]
         /\ options["autoClose"] \in Refs => options["autoClose"] # peer.options["autoClose"]
    ]_vars

C27_Witness ==
  /\ peer.live
  /\ peer.rules["autoClose"].cloneObject = Null
  /\ last.op = "mutate"
  /\ last.name = "autoClose"
  /\ options["autoClose"] \in Refs
  /\ heap[RefIndex(options["autoClose"])]["enabled"] = False
  /\ heap[RefIndex(peer.options["autoClose"])]["enabled"] = True
  /\ heap[RefIndex(peer.defaults["autoClose"])]["enabled"] = True

=============================================================================
